---- MODULE Spec2Model ----
(***************************************************************************)
(* Model of scripts/fetch_fangraphs_fa_pool.py: the FanGraphs free-agent   *)
(* pool fetcher.  One sequential job: for each task, split the segment's   *)
(* player ids into batches, fetch every batch through call_api (retry with *)
(* backoff), merge the rows, normalise hitters, write one JSON file.       *)
(*                                                                         *)
(* Python strings are modelled as sequences of one-character strings so    *)
(* that str(), strip() and concatenation are computed, not assumed.        *)
(* A JSON scalar is a tagged record [t, s]: t is the Python type and s the *)
(* text str() renders for it (for None the text is computed by py_str).    *)
(* A row (a dict) is a function from a set of key names to such values.    *)
(* Times are in ticks of 1/10000 time unit, so the backoff arithmetic is   *)
(* exact.                                                                  *)
(***************************************************************************)
EXTENDS Integers, Naturals, Sequences, FiniteSets, TLC

VARIABLES
  upstream,   \* environment: the payload upstream holds for the i-th batch
  faults,     \* environment: the failing outcomes upstream can produce
  pc,         \* position of the job
  ti,         \* main: number of tasks started
  files,      \* the output directory: per output name, writes and content
  rows,       \* fetch_batched: accumulated rows
  batches,    \* fetch_batched: chunk(players, BATCH_SIZE)
  bi,         \* fetch_batched: index of the current batch
  attempt,    \* call_api: loop variable
  delay,      \* call_api: current backoff delay
  last_err,   \* call_api: last exception caught
  payload,    \* value returned by the last call_api
  err,        \* the exception that ended the job
  calls,      \* history: HTTP requests issued by the current call_api
  hist,       \* history: outcomes of those requests
  sleeps,     \* history: time.sleep(delay) arguments of the current call_api
  sent,       \* history: params of every call_api call of the current task
  received,   \* history: rows extracted from the responses of the task
  treq,       \* history: HTTP requests issued for the current task
  oks,        \* history: requests of the current task that returned a payload
  nmerged,    \* history: batches of the current task merged into rows
  ma, mb,     \* merge_rows harness: the two argument lists
  m,          \* merge_rows(ma, mb)
  mm,         \* merge_rows(m, m)
  mmb,        \* merge_rows(m, mb)
  mpc,        \* position of the merge_rows harness
  fin,        \* function harness: the arguments drawn
  fout,       \* function harness: the value the function returned
  fpc         \* position of the function harness

jobvars == << upstream, faults, pc, ti, files, rows, batches, bi, attempt,
              delay, last_err, payload, err, calls, hist, sleeps, sent,
              received, treq, oks, nmerged >>

mergevars == << ma, mb, m, mm, mmb, mpc >>

fnvars == << fin, fout, fpc >>

vars == << upstream, faults, pc, ti, files, rows, batches, bi, attempt,
           delay, last_err, payload, err, calls, hist, sleeps, sent,
           received, treq, oks, nmerged, ma, mb, m, mm, mmb, mpc,
           fin, fout, fpc >>

----------------------------------------------------------------------------
(* Bounds of the model *)

\* longest concatenation all_rows + new_rows drawn for merge_rows
MaxLen == 4

\* number of distinct failing outcomes upstream mixes within one call_api
MaxFaultKinds == 2

\* longest JSON list drawn for normalize_rows
MaxEntries == 3

\* longest id list drawn for chunk, besides the list of 58 ids
MaxIds == 5

\* largest batch size drawn for chunk, besides BATCH_SIZE
MaxBatch == 3

\* longest candidate key list drawn for first_present
MaxKeys == 3

----------------------------------------------------------------------------
(* Program constants *)

SEGMENTS ==
  [ hit |-> <<
      26546, 27915, 19455, 23802, 16925, 15654, 30028, 21496,
      16398, 33280, 29646, 35108, 30038, 21587, 31912, 21547,
      25629, 21535, 19458, 25183, 25705, 23395, 23695, 31363,
      24878, 23372, 25477, 29830, 31661, 26202, 31370, 28253,
      27690, 23968, 27501, 26374, 26244, 29844, 27963, 24605,
      10655, 18054, 27789, 22766, 19960, 29571, 19877, 30063,
      26148, 26143, 10200, 29949, 31396, 25999, 31583, 19562 >>,
    sp |-> <<
      31764, 13050, 26056, 20370, 31815, 19736, 30113, 31312,
      26171, 27932, 31623, 23301, 19666, 26482, 19222, 14120,
      31475, 23735, 17732, 15094, 26440, 13580, 16358, 20629 >>,
    rp |-> <<
      31764, 25327, 29633, 26203, 13050, 26136, 21345, 33568,
      27695, 19804, 31815, 19736, 13607, 30161, 9174, 30113,
      30206, 27662, 15256, 27481, 22113, 31312, 25873, 33248,
      27974, 26260, 22176, 27626, 19586, 23324, 27583, 21863,
      19835, 20546, 26259, 27932, 21212, 18674, 23301, 19666,
      26482, 16631, 19205, 30016, 24591, 16128, 24590, 13190,
      27984, 25957, 27271, 21924, 15514, 29615, 20515, 19222,
      14120, 31884, 23811, 25839, 24710, 26353, 22288, 29770,
      20827, 17732, 19281, 29564, 33821, 15094, 24094, 26440,
      13580, 26344, 26285, 20629, 20379 >> ]

HITTER_COLS ==
  << "Bats", "Name", "Age", "Team", "Season", "G", "AB", "PA", "H", "2B",
     "3B", "HR", "R", "RBI", "BB", "SO", "HBP", "SB", "CS", "AVG", "OBP",
     "SLG", "OPS" >>

BATCH_SIZE == 40

SEASON == 2025

\* default of call_api's parameter tries
tries == 6

\* statuses call_api turns into a RuntimeError itself
TRANSIENT == {429, 403, 502, 503, 504}

\* ticks per time unit
Tick == 100 * 100

\* delay = 2.0
InitialDelay == 2 * Tick

\* min(delay * 1.8, 20.0)
DelayCap == 20 * Tick

PID_ALIASES == << "playerid", "PlayerId", "playerId", "ID", "id" >>

tasks ==
  << [out |-> "hit_bat_all", seg |-> "hit", stats |-> "bat", month |-> 0],
     [out |-> "hit_bat_lhp", seg |-> "hit", stats |-> "bat", month |-> 13],
     [out |-> "hit_bat_rhp", seg |-> "hit", stats |-> "bat", month |-> 14],
     [out |-> "sp_pit_all", seg |-> "sp", stats |-> "pit", month |-> 0],
     [out |-> "sp_pit_lhb", seg |-> "sp", stats |-> "pit", month |-> 13],
     [out |-> "sp_pit_rhb", seg |-> "sp", stats |-> "pit", month |-> 14],
     [out |-> "rp_pit_all", seg |-> "rp", stats |-> "pit", month |-> 0],
     [out |-> "rp_pit_lhb", seg |-> "rp", stats |-> "pit", month |-> 13],
     [out |-> "rp_pit_rhb", seg |-> "rp", stats |-> "pit", month |-> 14] >>

----------------------------------------------------------------------------
(* Python values *)

None == [t |-> "none", s |-> << >>]

Str(s) == [t |-> "str", s |-> s]

\* an int or float, s its str() text
Num(s) == [t |-> "num", s |-> s]

\* True or False, s its str() text
Bool(s) == [t |-> "bool", s |-> s]

\* a name bound to the value of e, evaluated once as Python evaluates it
With(e, F(_)) == CHOOSE y \in {F(x) : x \in {e}} : TRUE

\* str(v)
py_str(v) == IF v.t = "none" THEN << "N", "o", "n", "e" >> ELSE v.s

Whitespace == {" "}

\* s.strip()
strip(str) ==
  With(str, LAMBDA s :
    With({i \in 1..Len(s) : s[i] \notin Whitespace}, LAMBDA keep :
      IF keep = {} THEN << >>
      ELSE LET lo == CHOOSE i \in keep : \A j \in keep : i <= j
               hi == CHOOSE i \in keep : \A j \in keep : j <= i
           IN  SubSeq(s, lo, hi)))

\* row.get(k, default)
get(row, k, default) == IF k \in DOMAIN row THEN row[k] ELSE default

EmptyRow == [k \in {} |-> None]

----------------------------------------------------------------------------
(* Pure functions *)

RECURSIVE chunkFrom(_, _, _)
chunkFrom(lst, n, i) ==
  IF i > Len(lst) THEN << >>
  ELSE << SubSeq(lst, i, IF i + n - 1 < Len(lst) THEN i + n - 1 ELSE Len(lst)) >>
       \o chunkFrom(lst, n, i + n)

RECURSIVE chunkShortFrom(_, _, _)
chunkShortFrom(lst, n, i) ==
  IF i > Len(lst) THEN << >>
  ELSE << SubSeq(lst, i, IF i + n - 2 < Len(lst) THEN i + n - 2 ELSE Len(lst)) >>
       \o chunkShortFrom(lst, n, i + n)

\* chunk slicing lst[i:i+n-1]
chunk_short(lst, n) == chunkShortFrom(lst, n, 1)

\* chunk over range(0, len(lst) - n + 1, n): a shorter last batch is lost
chunk_droplast(lst, n) ==
  LET full == chunkFrom(lst, n, 1)
  IN  IF full # << >> /\ Len(full[Len(full)]) < n
      THEN SubSeq(full, 1, Len(full) - 1) ELSE full

\* [lst[i:i+n] for i in range(0, len(lst), n)]
chunk(lst, n) == chunkFrom(lst, n, 1)

\* bool(v) is False
Falsy(v) ==
  v \in {None, Str(<< >>), Num(<< "0" >>), Bool(<< "F", "a", "l", "s", "e" >>)}

\* first_present testing `if row.get(k)`: the first key with a truthy value
first_present_truthy(row, keys) ==
  LET hit == {i \in 1..Len(keys) : keys[i] \in DOMAIN row /\ ~Falsy(row[keys[i]])}
  IN  IF hit = {} THEN Str(<< >>)
      ELSE row[keys[CHOOSE i \in hit : \A j \in hit : i <= j]]

\* first key of keys that exists in row, by existence
first_present(row, keys) ==
  LET hit == {i \in 1..Len(keys) : keys[i] \in DOMAIN row}
  IN  IF hit = {} THEN Str(<< >>)
      ELSE row[keys[CHOOSE i \in hit : \A j \in hit : i <= j]]

\* dedup_key without the strip() calls
dedup_key_nostrip(r) ==
  LET pid == first_present(r, PID_ALIASES)
  IN  IF pid \notin {Str(<< >>), None}
      THEN py_str(pid)
      ELSE py_str(get(r, "Name", Str(<< >>))) \o << "|" >>
           \o py_str(get(r, "Team", Str(<< >>)))

\* the dedup key merge_rows computes for row r
dedup_key(r) ==
  With(first_present(r, PID_ALIASES), LAMBDA pid :
    IF pid \notin {Str(<< >>), None}
    THEN strip(py_str(pid))
    ELSE strip(py_str(get(r, "Name", Str(<< >>)))) \o << "|" >>
         \o strip(py_str(get(r, "Team", Str(<< >>)))))

RECURSIVE merge_loop(_, _, _)
merge_loop(rows_, seen_, merged_) ==
  With(<< rows_, seen_, merged_ >>, LAMBDA st :
    LET rs == st[1]
        seenkeys == st[2]
        merged == st[3]
    IN  IF rs = << >> THEN merged
        ELSE With(dedup_key(Head(rs)), LAMBDA key :
               IF key \in seenkeys
               THEN merge_loop(Tail(rs), seenkeys, merged)
               ELSE merge_loop(Tail(rs), seenkeys \cup {key},
                               Append(merged, Head(rs)))))

\* merge_rows iterating new_rows + all_rows
merge_rows_swapped(all_rows, new_rows) == merge_loop(new_rows \o all_rows, {}, << >>)

\* merge_rows without seen.add(key)
merge_rows_noadd(all_rows, new_rows) == all_rows \o new_rows

\* merge_rows whose seen set holds the keys of all_rows only
merge_rows_seenold(all_rows, new_rows) ==
  all_rows \o SelectSeq(new_rows, LAMBDA r :
                 \A i \in 1..Len(all_rows) : dedup_key(all_rows[i]) # dedup_key(r))

merge_rows(all_rows, new_rows) == merge_loop(all_rows \o new_rows, {}, << >>)

\* JSON values of a payload: a list of entries, or anything else
JList(v) == [t |-> "list", v |-> v]

JOther == [t |-> "other", v |-> << >>]

\* entries of a JSON list: an object (a row) or a non-object
JObj(r) == [t |-> "obj", row |-> r]

JScalar == [t |-> "scalar", row |-> EmptyRow]

ROW_KEYS == << "data", "rows", "result", "results" >>

\* [r for r in v if isinstance(r, dict)]
RECURSIVE only_dicts(_)
only_dicts(v) ==
  IF v = << >> THEN << >>
  ELSE IF Head(v).t = "obj" THEN << Head(v).row >> \o only_dicts(Tail(v))
       ELSE only_dicts(Tail(v))

\* normalize_rows returning the list it found as it is
normalize_rows_nofilter(p) ==
  LET lists == {i \in 1..Len(ROW_KEYS) :
                  ROW_KEYS[i] \in DOMAIN p /\ p[ROW_KEYS[i]].t = "list"}
      v == p[ROW_KEYS[CHOOSE i \in lists : \A j \in lists : i <= j]].v
  IN  IF lists = {} THEN << >> ELSE [i \in 1..Len(v) |-> v[i].row]

normalize_rows(p) ==
  LET lists == {i \in 1..Len(ROW_KEYS) :
                  ROW_KEYS[i] \in DOMAIN p /\ p[ROW_KEYS[i]].t = "list"}
  IN  IF lists = {} THEN << >>
      ELSE only_dicts(p[ROW_KEYS[CHOOSE i \in lists : \A j \in lists : i <= j]].v)

DIGITS == << "0", "1", "2", "3", "4", "5", "6", "7", "8", "9" >>

IsDigit(c) == \E d \in 1..Len(DIGITS) : DIGITS[d] = c

DigitVal(c) == (CHOOSE d \in 1..Len(DIGITS) : DIGITS[d] = c) - 1

RECURSIVE ToNat(_)
ToNat(digits) ==
  With(digits, LAMBDA s :
    IF s = << >> THEN 0
    ELSE ToNat(SubSeq(s, 1, Len(s) - 1)) * 10 + DigitVal(s[Len(s)]))

RECURSIVE NatStr(_)
NatStr(nat) ==
  With(nat, LAMBDA n :
    IF n < 10 THEN << DIGITS[n + 1] >>
    ELSE NatStr(n \div 10) \o << DIGITS[(n % 10) + 1] >>)

RECURSIVE Pow10(_)
Pow10(k) == IF k = 0 THEN 1 ELSE 10 * Pow10(k - 1)

\* float(v) for the decimal literals [ws][+-]digits[.digits][ws]; exponents,
\* inf, nan and underscores are outside the alphabet of the model
parse_float(s) ==
  With(strip(s), LAMBDA t :
  LET signed == t # << >> /\ t[1] \in {"-", "+"}
      body == IF signed THEN Tail(t) ELSE t
      dots == {i \in 1..Len(body) : body[i] = "."}
      d == IF dots = {} THEN Len(body) + 1 ELSE CHOOSE i \in dots : TRUE
  IN  [ok |-> /\ Cardinality(dots) <= 1
              /\ Len(body) > Cardinality(dots)
              /\ \A i \in 1..Len(body) : i \in dots \/ IsDigit(body[i]),
       neg |-> signed /\ t[1] = "-",
       ip |-> SubSeq(body, 1, d - 1),
       fp |-> SubSeq(body, d + 1, Len(body))])

\* f"{fv:.3f}": thousandths, nearest, an exact decimal tie to even
format3(fv) ==
  With(fv, LAMBDA f :
  With(ToNat(f.ip \o f.fp), LAMBDA total :
  LET k == Len(f.fp)
      q == IF k <= 3 THEN total * Pow10(3 - k)
           ELSE LET unit == Pow10(k - 3)
                    lo == total \div unit
                    rem == total % unit
                IN  IF 2 * rem > unit \/ (2 * rem = unit /\ lo % 2 = 1)
                    THEN lo + 1 ELSE lo
      frac == NatStr(q % 1000)
      pad == IF Len(frac) = 1 THEN << "0", "0" >>
             ELSE IF Len(frac) = 2 THEN << "0" >> ELSE << >>
  IN  (IF f.neg THEN << "-" >> ELSE << >>)
      \o NatStr(q \div 1000) \o << "." >> \o pad \o frac))

fmt3(val) ==
  With(val, LAMBDA v :
    IF v = None \/ v = Str(<< >>) THEN Str(<< >>)
    ELSE IF v.t = "num" THEN Str(format3(parse_float(v.s)))
    ELSE With(parse_float(v.s), LAMBDA f :
           IF f.ok THEN Str(format3(f)) ELSE v))

RATE_COLS == {"AVG", "OBP", "SLG", "OPS"}

\* the candidate keys normalize_hitter gives first_present per column
COL_KEYS ==
  [c \in {HITTER_COLS[i] : i \in 1..Len(HITTER_COLS)} |->
     CASE c = "Bats" -> << "Bats", "Bat", "B" >>
       [] c = "Name" -> << "Name", "Player", "playerName", "PlayerName" >>
       [] c = "Team" -> << "Team", "Tm", "TeamName", "AbbName" >>
       [] c = "Season" -> << "Season", "season", "Year" >>
       [] c = "G" -> << "G", "Games" >>
       [] c = "H" -> << "H", "Hits" >>
       [] c = "2B" -> << "2B", "Doubles" >>
       [] c = "3B" -> << "3B", "Triples" >>
       [] c = "HR" -> << "HR", "HomeRuns" >>
       [] c = "R" -> << "R", "Runs" >>
       [] c = "SO" -> << "SO", "K", "Ks" >>
       [] c = "AVG" -> << "AVG", "BA", "Avg" >>
       [] OTHER -> << c >>]

\* normalize_hitter starting from a copy of the row: upstream keys survive
normalize_hitter_keepkeys(row) ==
  LET mapped == [c \in DOMAIN COL_KEYS |->
                   IF c \in RATE_COLS THEN fmt3(first_present(row, COL_KEYS[c]))
                   ELSE first_present(row, COL_KEYS[c])]
  IN  [k \in DOMAIN COL_KEYS \cup DOMAIN row |->
         IF k \in DOMAIN COL_KEYS THEN mapped[k] ELSE row[k]]

normalize_hitter(r) ==
  With(r, LAMBDA row :
  With([c \in DOMAIN COL_KEYS |->
          IF c \in RATE_COLS THEN fmt3(first_present(row, COL_KEYS[c]))
          ELSE first_present(row, COL_KEYS[c])], LAMBDA mapped :
    [k \in {HITTER_COLS[i] : i \in 1..Len(HITTER_COLS)} |->
       get(mapped, k, Str(<< >>))]))

\* [normalize_hitter(r) for r in rows]
normalize_all(rows_) ==
  With(rows_, LAMBDA rs : [i \in 1..Len(rs) |-> normalize_hitter(rs[i])])

RECURSIVE join_ids(_)
\* ",".join(map(str, players))
join_ids(players) ==
  IF players = << >> THEN << >>
  ELSE IF Len(players) = 1 THEN NatStr(players[1])
  ELSE NatStr(players[1]) \o << "," >> \o join_ids(Tail(players))

leaders_params(players, stats, month) ==
  [ind |-> "0", lg |-> "all", pos |-> "all", qual |-> "0",
   season |-> NatStr(SEASON), season1 |-> NatStr(SEASON),
   stats |-> stats, month |-> NatStr(month),
   players |-> join_ids(players),
   team |-> "0,ts", rost |-> "0", type |-> "8", sortcol |-> "17",
   sortdir |-> "default", pageitems |-> "500", pagenum |-> "1",
   filter |-> ""]

----------------------------------------------------------------------------
(* Exceptions and the outcomes of one requests.get *)

NoErr == [kind |-> "None", status |-> 0]

Error(kind, status) == [kind |-> kind, status |-> status]

\* an outcome: the request failed in the network (net), or a response came
\* back with a status and a body that is a JSON object, another JSON value,
\* or not JSON at all
Outcome(net, status, body) == [net |-> net, status |-> status, body |-> body]

OkOutcomes == {Outcome(FALSE, 200, "object"), Outcome(FALSE, 200, "nonobject")}

FailOutcomes ==
  {Outcome(TRUE, 0, "none"), Outcome(FALSE, 200, "garbage")}
  \cup {Outcome(FALSE, st, "garbage") : st \in {403, 404, 429, 500, 502, 503, 504}}

\* the exception the body of call_api's try raises on an outcome, NoErr if
\* it reaches return r.json()
response_error(o) ==
  IF o.net THEN Error("ConnectionError", 0)
  ELSE IF o.status \in TRANSIENT THEN Error("RuntimeError", o.status)
  ELSE IF 400 <= o.status /\ o.status < 600 THEN Error("HTTPError", o.status)
  ELSE IF o.body = "garbage" THEN Error("JSONDecodeError", o.status)
  ELSE NoErr

\* the exhaustion test one attempt early
exhausted_early(a, n) == a = n - 1

\* the exhaustion test one attempt late
exhausted_late(a, n) == a = n + 1

\* if attempt == tries: raise
exhausted(a, n) == a = n

\* the backoff step without the cap
next_delay_nocap(d) == (d * 18) \div 10

\* delay = min(delay * 1.8, 20.0)
next_delay(d) ==
  LET grown == (d * 18) \div 10
  IN  IF grown < DelayCap THEN grown ELSE DelayCap

----------------------------------------------------------------------------
(* The rows and payloads upstream can hold *)

S1(c) == Str(<< c >>)

RowA ==
  ("playerid" :> Num(<< "7" >>)) @@ ("Name" :> S1("a")) @@ ("Team" :> S1("T"))
  @@ ("AVG" :> Str(<< "0", ".", "3" >>)) @@ ("HomeRuns" :> Num(<< "5" >>))

RowB ==
  ("playerid" :> Num(<< "8" >>)) @@ ("Name" :> S1("a")) @@ ("Team" :> S1("T"))
  @@ ("BA" :> Str(<< ".", "2", "5" >>)) @@ ("HR" :> Num(<< "2" >>))
  @@ ("HomeRuns" :> Num(<< "9" >>))

RowC ==
  ("Name" :> S1("c")) @@ ("Team" :> S1("T"))
  @@ ("AVG" :> Str(<< "a", "b", "c" >>)) @@ ("OPS" :> None)

RowD ==
  ("playerid" :> Str(<< "7" >>)) @@ ("Name" :> S1("d")) @@ ("Team" :> S1("T"))
  @@ ("OBP" :> Str(<< "0", ".", "3", "4", "5", "6" >>))

RowE ==
  ("playerid" :> Num(<< "9" >>)) @@ ("WAR" :> Str(<< "1", ".", "5" >>))

PayloadSet ==
  { ("data" :> JList(<< JObj(RowA), JScalar, JObj(RowB) >>)),
    ("data" :> JList(<< JObj(RowB), JObj(RowC), JObj(RowD), JObj(RowC) >>))
      @@ ("rows" :> JList(<< JObj(RowA) >>)),
    ("data" :> JOther) @@ ("rows" :> JList(<< JObj(RowC), JObj(RowA), JObj(RowE) >>)),
    ("total" :> JOther) }

OutNames == {tasks[i].out : i \in 1..Len(tasks)}

\* the largest number of batches a task has
MaxBatches ==
  CHOOSE n \in 0..Len(tasks) * 100 :
    /\ \E i \in 1..Len(tasks) : Len(chunk(SEGMENTS[tasks[i].seg], BATCH_SIZE)) = n
    /\ \A i \in 1..Len(tasks) : Len(chunk(SEGMENTS[tasks[i].seg], BATCH_SIZE)) <= n

Worlds == [1..MaxBatches -> PayloadSet]

\* the failing outcomes upstream produces during the job
JobFaults == {Outcome(FALSE, 503, "garbage"), Outcome(FALSE, 404, "garbage")}

\* the value call_api returns: a dict d, or a JSON value that is no dict
Returned(isdict, d) == [isdict |-> isdict, d |-> d]

NoPayload == Returned(FALSE, EmptyRow)

----------------------------------------------------------------------------
(* The job *)

\* the state of the merge_rows harness while the job runs
MergeOff ==
  /\ ma = << >> /\ mb = << >> /\ m = << >> /\ mm = << >> /\ mmb = << >>
  /\ mpc = "off"

\* the state main starts in
JobStart ==
  /\ pc = "main"
  /\ ti = 0
  /\ files = [n \in OutNames |-> [writes |-> 0, rows |-> << >>]]
  /\ rows = << >>
  /\ batches = << >>
  /\ bi = 1
  /\ attempt = 1
  /\ delay = InitialDelay
  /\ last_err = NoErr
  /\ payload = NoPayload
  /\ err = NoErr
  /\ calls = 0
  /\ hist = << >>
  /\ sleeps = << >>
  /\ sent = << >>
  /\ received = << >>
  /\ treq = 0
  /\ oks = 0
  /\ nmerged = 0

\* the state of the function harness while another specification runs
FnOff == fin = << >> /\ fout = << >> /\ fpc = "off"

Init ==
  /\ upstream \in Worlds
  /\ faults = JobFaults
  /\ JobStart
  /\ MergeOff
  /\ FnOff

\* StartTask of a main that catches a task's exception and goes on
StartTask_resume ==
  /\ pc \in {"main", "aborted"}
  /\ ti < Len(tasks)
  /\ ti' = ti + 1
  /\ rows' = << >>
  /\ batches' = chunk(SEGMENTS[tasks[ti + 1].seg], BATCH_SIZE)
  /\ bi' = 1
  /\ sent' = << >>
  /\ received' = << >>
  /\ treq' = 0
  /\ oks' = 0
  /\ nmerged' = 0
  /\ pc' = "fetch"
  /\ UNCHANGED << upstream, faults, files, attempt, delay, last_err, payload,
                  err, calls, hist, sleeps >>
  /\ UNCHANGED << mergevars, fnvars >>

\* main: the next iteration of the loop over tasks, into fetch_and_save and
\* fetch_batched up to its loop
StartTask ==
  /\ pc = "main"
  /\ ti < Len(tasks)
  /\ ti' = ti + 1
  /\ rows' = << >>
  /\ batches' = chunk(SEGMENTS[tasks[ti + 1].seg], BATCH_SIZE)
  /\ bi' = 1
  /\ sent' = << >>
  /\ received' = << >>
  /\ treq' = 0
  /\ oks' = 0
  /\ nmerged' = 0
  /\ pc' = "fetch"
  /\ UNCHANGED << upstream, faults, files, attempt, delay, last_err, payload,
                  err, calls, hist, sleeps >>
  /\ UNCHANGED << mergevars, fnvars >>

\* CallStart not waiting for the previous response to be merged
CallStart_eager ==
  /\ pc \in {"fetch", "returned"}
  /\ bi <= Len(batches)
  /\ sent' = Append(sent, leaders_params(batches[bi], tasks[ti].stats, tasks[ti].month))
  /\ delay' = InitialDelay
  /\ last_err' = NoErr
  /\ attempt' = 1
  /\ calls' = 0
  /\ hist' = << >>
  /\ sleeps' = << >>
  /\ pc' = "call"
  /\ UNCHANGED << upstream, faults, ti, files, rows, batches, bi, payload,
                  err, received, treq, oks, nmerged >>
  /\ UNCHANGED << mergevars, fnvars >>

\* fetch_batched: the next batch; call_api is entered with its params
CallStart ==
  /\ pc = "fetch"
  /\ bi <= Len(batches)
  /\ sent' = Append(sent, leaders_params(batches[bi], tasks[ti].stats, tasks[ti].month))
  /\ delay' = InitialDelay
  /\ last_err' = NoErr
  /\ attempt' = 1
  /\ calls' = 0
  /\ hist' = << >>
  /\ sleeps' = << >>
  /\ pc' = "call"
  /\ UNCHANGED << upstream, faults, ti, files, rows, batches, bi, payload,
                  err, received, treq, oks, nmerged >>
  /\ UNCHANGED << mergevars, fnvars >>

\* call_api: one iteration of the retry loop, with outcome o of requests.get
Attempt(o) ==
  /\ pc = "call"
  /\ calls' = calls + 1
  /\ treq' = treq + 1
  /\ oks' = IF response_error(o) = NoErr THEN oks + 1 ELSE oks
  /\ hist' = Append(hist, o)
  /\ LET e == response_error(o)
     IN  IF e = NoErr
         THEN /\ payload' = IF o.body = "object" THEN Returned(TRUE, upstream[bi])
                            ELSE Returned(FALSE, EmptyRow)
              /\ pc' = "returned"
              /\ UNCHANGED << attempt, delay, last_err, err, sleeps >>
         ELSE /\ last_err' = e
              /\ IF exhausted(attempt, tries)
                 THEN /\ err' = e
                      /\ pc' = "aborted"
                      /\ UNCHANGED << attempt, delay, sleeps >>
                 ELSE /\ sleeps' = Append(sleeps, delay)
                      /\ delay' = next_delay(delay)
                      /\ attempt' = attempt + 1
                      /\ UNCHANGED << err, pc >>
              /\ UNCHANGED payload
  /\ UNCHANGED << upstream, faults, ti, files, rows, batches, bi, sent,
                  received, nmerged >>
  /\ UNCHANGED << mergevars, fnvars >>

\* fetch_batched: the rest of the loop body after call_api returned;
\* payload.get raises AttributeError when the JSON value is no dict
MergeBatch ==
  /\ pc = "returned"
  /\ IF payload.isdict
     THEN LET batch_rows == normalize_rows(payload.d)
          IN  /\ rows' = merge_rows(rows, batch_rows)
              /\ received' = received \o batch_rows
              /\ nmerged' = nmerged + 1
              /\ bi' = bi + 1
              /\ pc' = "fetch"
              /\ err' = err
     ELSE /\ err' = Error("AttributeError", 0)
          /\ pc' = "aborted"
          /\ UNCHANGED << rows, received, nmerged, bi >>
  /\ UNCHANGED << upstream, faults, ti, files, batches, attempt, delay,
                  last_err, payload, calls, hist, sleeps, sent, treq, oks >>
  /\ UNCHANGED << mergevars, fnvars >>

\* fetch_and_save normalising whatever the stat type
output_rows_always(stats, rs) == normalize_all(rs)

\* the rows fetch_and_save hands to save_json
output_rows(stats, rs) == IF stats = "bat" THEN normalize_all(rs) ELSE rs

\* Save of a fetch_batched that writes the file after every batch
Save_partial ==
  /\ pc = "fetch"
  /\ bi > 1
  /\ files[tasks[ti].out].rows # output_rows(tasks[ti].stats, rows)
       \/ bi > Len(batches)
  /\ files' = [files EXCEPT ![tasks[ti].out] =
                 [writes |-> IF @.writes = 0 THEN 1 ELSE @.writes,
                  rows |-> output_rows(tasks[ti].stats, rows)]]
  /\ pc' = IF bi > Len(batches) THEN "main" ELSE "fetch"
  /\ UNCHANGED << upstream, faults, ti, rows, batches, bi, attempt, delay,
                  last_err, payload, err, calls, hist, sleeps, sent, received,
                  treq, oks, nmerged >>
  /\ UNCHANGED << mergevars, fnvars >>

\* fetch_batched returns; fetch_and_save normalises and writes the file
Save ==
  /\ pc = "fetch"
  /\ bi > Len(batches)
  /\ files' = [files EXCEPT ![tasks[ti].out] =
                 [writes |-> @.writes + 1,
                  rows |-> output_rows(tasks[ti].stats, rows)]]
  /\ pc' = "main"
  /\ UNCHANGED << upstream, faults, ti, rows, batches, bi, attempt, delay,
                  last_err, payload, err, calls, hist, sleeps, sent, received,
                  treq, oks, nmerged >>
  /\ UNCHANGED << mergevars, fnvars >>

\* main: the loop over tasks is over
Finish ==
  /\ pc = "main"
  /\ ti = Len(tasks)
  /\ pc' = "done"
  /\ UNCHANGED << upstream, faults, ti, files, rows, batches, bi, attempt,
                  delay, last_err, payload, err, calls, hist, sleeps, sent,
                  received, treq, oks, nmerged >>
  /\ UNCHANGED << mergevars, fnvars >>

Next ==
  \/ StartTask
  \/ CallStart
  \/ \E o \in OkOutcomes \cup faults : Attempt(o)
  \/ MergeBatch
  \/ Save
  \/ Finish

Spec == Init /\ [][Next]_vars

\* the interpreter keeps running the job, and every request returns or
\* fails within its timeout
SpecFair == Spec /\ WF_vars(Next)

----------------------------------------------------------------------------
(* One call_api call under every mix of failing outcomes: the job up to    *)
(* the end of its first call_api                                           *)

FaultProfiles ==
  {F \in SUBSET FailOutcomes : 1 <= Cardinality(F) /\ Cardinality(F) <= MaxFaultKinds}

InitCall ==
  /\ upstream \in {[i \in 1..MaxBatches |-> p] : p \in PayloadSet}
  /\ faults \in FaultProfiles
  /\ JobStart
  /\ MergeOff
  /\ FnOff

NextCall ==
  \/ StartTask
  \/ CallStart
  \/ \E o \in OkOutcomes \cup faults : Attempt(o)

SpecCall == InitCall /\ [][NextCall]_vars

----------------------------------------------------------------------------
(* merge_rows applied to argument lists drawn from MergeRows *)

NameTeam(n, t) == ("Name" :> Str(n)) @@ ("Team" :> S1(t))

MergeRows ==
  { ("playerid" :> Num(<< "7" >>)) @@ NameTeam(<< "a" >>, "T"),
    ("playerid" :> Num(<< "8" >>)) @@ NameTeam(<< "a" >>, "T"),
    ("playerid" :> Str(<< "7" >>)) @@ NameTeam(<< "b" >>, "T"),
    ("playerid" :> Str(<< >>)) @@ ("ID" :> Num(<< "5" >>)) @@ NameTeam(<< "a" >>, "T"),
    ("playerid" :> None) @@ ("id" :> Num(<< "6" >>)) @@ NameTeam(<< "a" >>, "T"),
    NameTeam(<< "a" >>, "T"),
    NameTeam(<< " ", "a" >>, "T"),
    NameTeam(<< "A" >>, "T"),
    NameTeam(<< "a", "|", "T" >>, "T"),
    ("Name" :> S1("a")) @@ ("Team" :> Str(<< "T", "|", "T" >>)) }

RECURSIVE SeqsUpTo(_, _)
\* the sequences over S of length at most n
SeqsUpTo(S, n) ==
  IF n = 0 THEN {<< >>}
  ELSE LET shorter == SeqsUpTo(S, n - 1)
       IN  shorter \cup {Append(q, x) : q \in {r \in shorter : Len(r) = n - 1}, x \in S}

InitMerge ==
  /\ upstream \in {[i \in 1..MaxBatches |-> p] : p \in {("total" :> JOther)}}
  /\ faults = {}
  /\ JobStart
  /\ \E q \in SeqsUpTo(MergeRows, MaxLen) : \E k \in 0..Len(q) :
       /\ ma = SubSeq(q, 1, k)
       /\ mb = SubSeq(q, k + 1, Len(q))
  /\ m = << >> /\ mm = << >> /\ mmb = << >>
  /\ mpc = "start"
  /\ FnOff

\* m = merge_rows(a, b)
Merge ==
  /\ mpc = "start"
  /\ m' = merge_rows(ma, mb)
  /\ mpc' = "merged"
  /\ UNCHANGED << ma, mb, mm, mmb >>
  /\ UNCHANGED << jobvars, fnvars >>

\* merge_rows(m, m) and merge_rows(m, b)
MergeAgain ==
  /\ mpc = "merged"
  /\ mm' = merge_rows(m, m)
  /\ mmb' = merge_rows(m, mb)
  /\ mpc' = "again"
  /\ UNCHANGED << ma, mb, m >>
  /\ UNCHANGED << jobvars, fnvars >>

NextMerge == Merge \/ MergeAgain

SpecMerge == InitMerge /\ [][NextMerge]_vars

----------------------------------------------------------------------------
(* normalize_rows applied to payloads drawn from PayloadShapes *)

\* what a payload holds under one key: nothing, a non-list, a one-row list,
\* or the list drawn
KeyShapes == {"absent", "other", "decoy", "main"}

Entries == {JObj(RowA), JObj(RowB), JScalar}

PayloadOf(shape, q) ==
  [k \in {x \in DOMAIN shape : shape[x] # "absent"} |->
     CASE shape[k] = "other" -> JOther
       [] shape[k] = "decoy" -> JList(<< JObj(RowD) >>)
       [] OTHER -> JList(q)]

InitRows ==
  /\ upstream \in {[i \in 1..MaxBatches |-> p] : p \in {("total" :> JOther)}}
  /\ faults = {}
  /\ JobStart
  /\ MergeOff
  /\ \E shape \in [{ROW_KEYS[i] : i \in 1..Len(ROW_KEYS)} -> KeyShapes] :
       \E q \in SeqsUpTo(Entries, MaxEntries) : fin = PayloadOf(shape, q)
  /\ fout = << >>
  /\ fpc = "rows"

\* fout = normalize_rows(payload)
ExtractRows ==
  /\ fpc = "rows"
  /\ fout' = normalize_rows(fin)
  /\ fpc' = "rows_done"
  /\ UNCHANGED fin
  /\ UNCHANGED << jobvars, mergevars >>

NextRows == ExtractRows

SpecRows == InitRows /\ [][NextRows]_vars

----------------------------------------------------------------------------
(* chunk applied to id lists and batch sizes drawn *)

\* the ids 1 .. n as a list
Ids(n) == [i \in 1..n |-> i]

ChunkInputs ==
  {[lst |-> l, n |-> n] : l \in SeqsUpTo({SEGMENTS.hit[1], SEGMENTS.hit[2]}, MaxIds),
                          n \in 1..MaxBatch}
  \cup {[lst |-> Ids(58), n |-> BATCH_SIZE]}

InitChunk ==
  /\ upstream \in {[i \in 1..MaxBatches |-> p] : p \in {("total" :> JOther)}}
  /\ faults = {}
  /\ JobStart
  /\ MergeOff
  /\ fin \in ChunkInputs
  /\ fout = << >>
  /\ fpc = "chunk"

\* fout = chunk(lst, n)
ApplyChunk ==
  /\ fpc = "chunk"
  /\ fout' = chunk(fin.lst, fin.n)
  /\ fpc' = "chunk_done"
  /\ UNCHANGED fin
  /\ UNCHANGED << jobvars, mergevars >>

NextChunk == ApplyChunk

SpecChunk == InitChunk /\ [][NextChunk]_vars

----------------------------------------------------------------------------
(* first_present applied to rows and candidate lists drawn *)

KeyPool == {"AVG", "BA", "Avg"}

\* what a row holds under a key: empty, null, 0, false, or a text
CellValues ==
  {Str(<< >>), None, Num(<< "0" >>), Bool(<< "F", "a", "l", "s", "e" >>), S1("x")}

PoolRows == UNION {[D -> CellValues] : D \in SUBSET KeyPool}

InitFirst ==
  /\ upstream \in {[i \in 1..MaxBatches |-> p] : p \in {("total" :> JOther)}}
  /\ faults = {}
  /\ JobStart
  /\ MergeOff
  /\ \E r \in PoolRows : \E ks \in SeqsUpTo(KeyPool, MaxKeys) :
       fin = [row |-> r, keys |-> ks]
  /\ fout = << >>
  /\ fpc = "first"

\* fout = first_present(row, keys)
ApplyFirst ==
  /\ fpc = "first"
  /\ fout' = first_present(fin.row, fin.keys)
  /\ fpc' = "first_done"
  /\ UNCHANGED fin
  /\ UNCHANGED << jobvars, mergevars >>

NextFirst == ApplyFirst

SpecFirst == InitFirst /\ [][NextFirst]_vars

----------------------------------------------------------------------------
(* Notions the properties are stated in *)

Range(q) == {q[i] : i \in 1..Len(q)}

\* the elements of q at the positions I, in order
At(q, I) ==
  [n \in 1..Cardinality(I) |->
     q[CHOOSE i \in I : Cardinality({j \in I : j <= i}) = n]]

\* the positions of q that hold the first row of their dedup key
FirstOfKey(q) ==
  {i \in 1..Len(q) : \A j \in 1..(i - 1) : dedup_key(q[j]) # dedup_key(q[i])}

\* no two rows of q share a dedup key
UniqueKeys(q) ==
  \A i, j \in 1..Len(q) : i # j => dedup_key(q[i]) # dedup_key(q[j])

\* the row carries no player identifier: every alias is absent, empty or null
NoId(r) ==
  \A i \in 1..Len(PID_ALIASES) :
    PID_ALIASES[i] \in DOMAIN r => r[PID_ALIASES[i]] \in {Str(<< >>), None}

\* the identifier a row carries: the value of its first non-empty alias
Ident(r) ==
  LET has == {i \in 1..Len(PID_ALIASES) :
                /\ PID_ALIASES[i] \in DOMAIN r
                /\ r[PID_ALIASES[i]] \notin {Str(<< >>), None}}
  IN  r[PID_ALIASES[CHOOSE i \in has : \A j \in has : i <= j]]

RawName(r) == get(r, "Name", Str(<< >>))

RawTeam(r) == get(r, "Team", Str(<< >>))

\* str(Name).strip() + "|" + str(Team).strip()
NameTeamKey(r) ==
  strip(py_str(RawName(r))) \o << "|" >> \o strip(py_str(RawTeam(r)))

MergeInput == ma \o mb

Is503(o) == ~o.net /\ o.status = 503

\* a response with a non-2xx status outside TRANSIENT
IsOtherStatus(o) ==
  ~o.net /\ (o.status < 200 \/ o.status >= 300) /\ o.status \notin TRANSIENT

----------------------------------------------------------------------------
(* C6: merge_rows(a, b) is exactly the subsequence of a + b that keeps,    *)
(* for each dedup key, the first row carrying it, and no two rows of the   *)
(* result share a dedup key.                                               *)
C6_MergeFirstSeen ==
  mpc # "start" =>
    /\ m = At(MergeInput, FirstOfKey(MergeInput))
    /\ UniqueKeys(m)

\* [A, B] merged with [B, C] gave [A, B, C]
C6_Witness ==
  /\ mpc = "merged"
  /\ Len(ma) = 2 /\ Len(mb) = 2
  /\ ma[2] = mb[1]
  /\ Cardinality({dedup_key(ma[1]), dedup_key(ma[2]), dedup_key(mb[2])}) = 3
  /\ m = << ma[1], ma[2], mb[2] >>

(* C7: merge_rows is idempotent: with m = merge_rows(a, b),                *)
(* merge_rows(m, m) = m and merge_rows(m, b) = m.                          *)
C7_MergeIdempotent ==
  mpc = "again" => (mm = m /\ mmb = m)

\* a merge that dropped duplicates was merged again
C7_Witness ==
  /\ mpc = "again"
  /\ Len(m) >= 2
  /\ Len(m) < Len(MergeInput)
  /\ mb # << >>

(* C8 as stated: two rows without player identifier are collapsed only     *)
(* when their Name values are identical and their Team values are          *)
(* identical; rows differing in whitespace or case are both kept.          *)
C8_Original ==
  (mpc = "merged" /\ \A r \in Range(MergeInput) : NoId(r)) =>
    \A r1, r2 \in Range(MergeInput) :
      (RawName(r1) # RawName(r2) \/ RawTeam(r1) # RawTeam(r2))
        => (r1 \in Range(m) /\ r2 \in Range(m))

(* C8 amended: rows without player identifier are keyed by                 *)
(* str(Name).strip() + "|" + str(Team).strip(): of the rows that agree on  *)
(* this text exactly the first is kept, so rows that differ only in        *)
(* leading or trailing whitespace are collapsed, and rows that differ in   *)
(* letter case are both kept.                                              *)
C8_NameTeamKey ==
  (mpc = "merged" /\ \A r \in Range(MergeInput) : NoId(r)) =>
    LET q == MergeInput
    IN  /\ m = At(q, {i \in 1..Len(q) :
                        \A j \in 1..(i - 1) : NameTeamKey(q[j]) # NameTeamKey(q[i])})
        /\ \A r1, r2 \in Range(q) :
             (/\ strip(py_str(RawName(r1))) = strip(py_str(RawName(r2)))
              /\ strip(py_str(RawTeam(r1))) = strip(py_str(RawTeam(r2)))
              /\ r1 # r2)
               => ~(r1 \in Range(m) /\ r2 \in Range(m))

\* rows differing only in leading whitespace were collapsed, and rows
\* differing only in letter case were both kept
C8_Witness ==
  /\ mpc = "merged"
  /\ \A r \in Range(MergeInput) : NoId(r)
  /\ \E r1, r2 \in Range(MergeInput) :
       /\ RawName(r1) # RawName(r2)
       /\ strip(RawName(r1).s) = strip(RawName(r2).s)
       /\ r1 \in Range(m) /\ r2 \notin Range(m)
  /\ \E r1, r2 \in Range(m) :
       /\ RawName(r1) = S1("a") /\ RawName(r2) = S1("A")
       /\ RawTeam(r1) = RawTeam(r2)

(* C9 as stated: rows carrying a non-empty player identifier under any     *)
(* alias are keyed by it: rows with different identifiers are all kept,    *)
(* also when an earlier alias is present with an empty or null value.      *)
C9_Original ==
  (/\ mpc = "merged"
   /\ \A r \in Range(MergeInput) : ~NoId(r)
   /\ \A i, j \in 1..Len(MergeInput) :
        i # j => strip(py_str(Ident(MergeInput[i]))) # strip(py_str(Ident(MergeInput[j]))))
    => m = MergeInput

----------------------------------------------------------------------------
(* Notions of the call_api and job properties *)

AllBefore(q, n, P(_)) == \A i \in 1..(n - 1) : P(q[i])

RECURSIVE Pow(_, _)
Pow(b, k) == IF k = 0 THEN 1 ELSE b * Pow(b, k - 1)

\* 2 * 1.8^(k-1) time units is SleepNum(k) / SleepDen(k) ticks
SleepNum(k) == 2 * Tick * Pow(18, k - 1)

SleepDen(k) == Pow(10, k - 1)

\* min(2 * 1.8^(k-1), 20) in ticks
ExpectedSleep(k) ==
  IF SleepNum(k) < 20 * Tick * SleepDen(k)
  THEN SleepNum(k) \div SleepDen(k) ELSE 20 * Tick

\* 2, 3.6, 6.48, 11.664, 20 in ticks
ListedSleeps ==
  << 2 * Tick, (36 * Tick) \div 10, (648 * Tick) \div 100,
     (11664 * Tick) \div 1000, 20 * Tick >>

Writes(k) == files[tasks[k].out].writes

RECURSIVE split_ids(_)
\* the player ids of a comma-joined players parameter
split_ids(q) ==
  IF q = << >> THEN << >>
  ELSE LET commas == {i \in 1..Len(q) : q[i] = ","}
           c == IF commas = {} THEN Len(q) + 1
                ELSE CHOOSE i \in commas : \A j \in commas : i <= j
       IN  << ToNat(SubSeq(q, 1, c - 1)) >> \o split_ids(SubSeq(q, c + 1, Len(q)))

RECURSIVE SentIds(_)
\* the player ids of the requests q, in the order sent
SentIds(q) ==
  IF q = << >> THEN << >> ELSE split_ids(Head(q).players) \o SentIds(Tail(q))

----------------------------------------------------------------------------
(* C1: call_api issues at most 6 requests per call; with 503 on the first  *)
(* N-1 requests and 200 on the N-th (1 <= N <= 6) it returns that payload  *)
(* after exactly N requests; with 503 on all 6 it raises after the 6th and *)
(* no 7th request is made.                                                 *)
C1_RetryBudget ==
  /\ calls <= 6
  /\ calls = Len(hist)
  /\ (hist # << >> /\ AllBefore(hist, Len(hist), Is503)) =>
       LET last == hist[Len(hist)]
       IN  /\ last = Outcome(FALSE, 200, "object") =>
                /\ pc = "returned"
                /\ payload = Returned(TRUE, upstream[bi])
           /\ (Is503(last) /\ Len(hist) < 6) => (pc = "call" /\ attempt = Len(hist) + 1)
           /\ (Is503(last) /\ Len(hist) = 6) =>
                (pc = "aborted" /\ err = Error("RuntimeError", 503))

\* five 503 answers, then the 6th request was answered 200 and returned
C1_Witness ==
  /\ pc = "returned"
  /\ Len(hist) = 6
  /\ AllBefore(hist, 6, Is503)
  /\ calls = 6
  /\ payload.isdict

(* C2 as stated: a response with a non-2xx status outside 429, 403, 502,   *)
(* 503, 504 makes call_api raise at once: it is the last request of the    *)
(* call, and no sleep follows it.                                          *)
C2_Original ==
  \A i \in 1..Len(hist) :
    IsOtherStatus(hist[i]) =>
      (i = Len(hist) /\ pc = "aborted" /\ Len(sleeps) = i - 1)

(* C10: the sleep after the k-th failed attempt of a call is               *)
(* min(2 * 1.8^(k-1), 20), i.e. 2, 3.6, 6.48, 11.664, 20; a call sleeps    *)
(* once between consecutive attempts, attempts - 1 times in all and not    *)
(* after its last attempt, and every call starts again at 2.               *)
C10_Backoff ==
  /\ Len(sleeps) <= 5
  /\ \A k \in 1..Len(sleeps) :
       /\ SleepNum(k) % SleepDen(k) = 0
       /\ sleeps[k] = ExpectedSleep(k)
       /\ sleeps[k] = ListedSleeps[k]
  /\ pc = "call" => (Len(sleeps) = calls /\ attempt = calls + 1)
  /\ (pc \in {"returned", "aborted"}) => Len(sleeps) = calls - 1

\* the second call_api of a task slept 2, 3.6, 6.48, 11.664 and 20
C10_Witness ==
  /\ bi = 2
  /\ pc = "aborted"
  /\ Len(sleeps) = 5
  /\ sleeps[1] = 2 * Tick
  /\ sleeps[5] = 20 * Tick
  /\ calls = 6

(* C3: a task's file is written only after every batch of the task was     *)
(* fetched and merged; while the task runs, and after one of its call_api  *)
(* calls exhausted its retries, the task has no file, empty or partial.    *)
C3_NoPartialOutput ==
  \A k \in 1..Len(tasks) :
    /\ k > ti => Writes(k) = 0
    /\ (k = ti /\ pc \in {"fetch", "call", "returned", "aborted"}) => Writes(k) = 0
    /\ (k = ti /\ Writes(k) > 0) =>
         /\ bi = Len(batches) + 1
         /\ Len(sent) = Len(batches)
         /\ files[tasks[k].out].rows =
              output_rows(tasks[k].stats, At(received, FirstOfKey(received)))

\* retries ran out on the second batch, rows of the first batch in hand
C3_Witness ==
  /\ pc = "aborted"
  /\ err.kind \in {"RuntimeError", "HTTPError"}
  /\ bi = 2
  /\ rows # << >>
  /\ Writes(ti) = 0

(* C4: tasks run in list order; once a fetch raised, nothing more happens: *)
(* no request, no file for that task or a later one, and the files of the  *)
(* earlier tasks stay as written.                                          *)
C4_FailFast ==
  /\ [](\A k \in 1..Len(tasks) :
          Writes(k) > 0 => (k <= ti /\ \A j \in 1..(k - 1) : Writes(j) > 0))
  /\ [](pc = "aborted" =>
          \A k \in 1..Len(tasks) : Writes(k) = (IF k < ti THEN 1 ELSE 0))
  /\ [][pc # "aborted"]_vars
  /\ [][\A n \in OutNames : files[n].writes > 0 => files'[n] = files[n]]_vars

\* the third task aborted with the files of the first two written
C4_Witness ==
  /\ pc = "aborted"
  /\ ti = 3
  /\ Writes(1) = 1 /\ Writes(2) = 1 /\ Writes(3) = 0
  /\ files[tasks[1].out].rows # << >>

(* C5: when a task completes, the ids of its segment were sent once each,  *)
(* one call_api per batch, in order, and every row extracted from a batch  *)
(* response has the first row of its dedup key in the task's result.       *)
C5_NoTruncation ==
  (pc \in {"main", "done"} /\ ti >= 1) =>
    /\ Len(sent) = Len(batches)
    /\ SentIds(sent) = SEGMENTS[tasks[ti].seg]
    /\ \A i \in 1..Len(received) :
         \E f \in FirstOfKey(received) :
           /\ dedup_key(received[f]) = dedup_key(received[i])
           /\ received[f] \in Range(rows)

\* a two-batch task completed and its responses held duplicates
C5_Witness ==
  /\ pc = "main"
  /\ ti >= 1
  /\ Len(batches) = 2
  /\ Len(rows) >= 2
  /\ Len(rows) < Len(received)

----------------------------------------------------------------------------
\* the 23 fixed columns of a normalized hitter row
FixedColumns ==
  { "Bats", "Name", "Age", "Team", "Season", "G", "AB", "PA", "H", "2B", "3B",
    "HR", "R", "RBI", "BB", "SO", "HBP", "SB", "CS", "AVG", "OBP", "SLG", "OPS" }

(* C11: every row in the file of a "bat" task has exactly the 23 fixed     *)
(* columns as its key set, whatever keys the upstream row carried.         *)
C11_HitterColumns ==
  /\ Cardinality(FixedColumns) = 23
  /\ \A k \in 1..Len(tasks) :
       tasks[k].stats = "bat" =>
         \A r \in Range(files[tasks[k].out].rows) : DOMAIN r = FixedColumns

\* a hitter file was written from rows of which one had none of the columns
\* and an extra key, and one had some of them
C11_Witness ==
  /\ pc = "main"
  /\ ti = 1
  /\ Len(files[tasks[1].out].rows) = Len(rows)
  /\ \E i \in 1..Len(rows) :
       DOMAIN rows[i] \cap FixedColumns = {} /\ "playerid" \in DOMAIN rows[i]
  /\ \E i \in 1..Len(rows) :
       /\ DOMAIN rows[i] \cap FixedColumns # {}
       /\ DOMAIN rows[i] \ FixedColumns # {}

----------------------------------------------------------------------------
HoldsList(p, k) == k \in DOMAIN p /\ p[k].t = "list"

\* the object entries of the JSON list v, in order
ObjectsOf(v) ==
  LET objs == At(v, {i \in 1..Len(v) : v[i].t = "obj"})
  IN  [n \in 1..Len(objs) |-> objs[n].row]

(* C12: row extraction checks "data", "rows", "result", "results" in that  *)
(* order and returns the list of the first key that holds a list, without  *)
(* its non-object entries and in order; a key that holds no list is        *)
(* skipped; with no list under any of the four keys the result is empty.   *)
C12_RowExtraction ==
  fpc = "rows_done" =>
    fout = IF HoldsList(fin, "data") THEN ObjectsOf(fin["data"].v)
           ELSE IF HoldsList(fin, "rows") THEN ObjectsOf(fin["rows"].v)
           ELSE IF HoldsList(fin, "result") THEN ObjectsOf(fin["result"].v)
           ELSE IF HoldsList(fin, "results") THEN ObjectsOf(fin["results"].v)
           ELSE << >>

\* "data" held a non-list, "rows" a list of two objects around a non-object,
\* "result" another list
C12_Witness ==
  /\ fpc = "rows_done"
  /\ "data" \in DOMAIN fin /\ fin["data"] = JOther
  /\ HoldsList(fin, "rows")
  /\ fin["rows"].v = << JObj(RowA), JScalar, JObj(RowB) >>
  /\ HoldsList(fin, "result")
  /\ fout = << RowA, RowB >>

----------------------------------------------------------------------------
RECURSIVE Concat(_)
\* the concatenation of the lists of q
Concat(q) == IF q = << >> THEN << >> ELSE Head(q) \o Concat(Tail(q))

(* C13: chunk(lst, n) cuts lst into consecutive batches: their             *)
(* concatenation is lst, every batch but the last has n elements, the last *)
(* has 1 to n, there are ceil(len(lst)/n) batches, none for an empty list; *)
(* 58 ids with batch size 40 give batches of 40 and 18.                    *)
C13_ChunkPartition ==
  fpc = "chunk_done" =>
    LET len == Len(fin.lst)
        n == fin.n
        nb == Len(fout)
    IN  /\ Concat(fout) = fin.lst
        /\ \A i \in 1..(nb - 1) : Len(fout[i]) = n
        /\ nb > 0 => (1 <= Len(fout[nb]) /\ Len(fout[nb]) <= n)
        /\ nb * n >= len /\ (nb = 0 \/ (nb - 1) * n < len)
        /\ nb = (len + n - 1) \div n
        /\ len = 0 => nb = 0
        /\ (len = 58 /\ n = 40) => [i \in 1..nb |-> Len(fout[i])] = << 40, 18 >>

\* 58 ids were cut with batch size 40
C13_Witness ==
  /\ fpc = "chunk_done"
  /\ Len(fin.lst) = 58
  /\ fin.n = 40
  /\ Len(fout) = 2
  /\ Len(fout[1]) = 40 /\ Len(fout[2]) = 18

----------------------------------------------------------------------------
(* C14: first_present(row, keys) returns the value of the first candidate  *)
(* that exists in the row, also when that value is empty, null, 0 or       *)
(* false, which then shadows every later candidate; only when no candidate *)
(* exists does it return the default empty string.                         *)
C14_FirstPresent ==
  fpc = "first_done" =>
    LET row == fin.row
        keys == fin.keys
    IN  \/ \E i \in 1..Len(keys) :
             /\ keys[i] \in DOMAIN row
             /\ \A j \in 1..(i - 1) : keys[j] \notin DOMAIN row
             /\ fout = row[keys[i]]
        \/ /\ \A i \in 1..Len(keys) : keys[i] \notin DOMAIN row
           /\ fout = Str(<< >>)

\* the first candidate was absent, the second held null and was returned
\* although the third held a text
C14_Witness ==
  /\ fpc = "first_done"
  /\ fin.keys = << "AVG", "BA", "Avg" >>
  /\ DOMAIN fin.row = {"BA", "Avg"}
  /\ fin.row["BA"] = None
  /\ fin.row["Avg"] = S1("x")
  /\ fout = None

----------------------------------------------------------------------------
(* C15: hitter normalization is applied exactly for "bat" tasks: a "pit"   *)
(* file holds the merged rows unmodified, a "bat" file holds the           *)
(* normalized images of the merged rows, as many and in the same order.    *)
C15_NormalizeOnlyBat ==
  (pc \in {"main", "done"} /\ ti >= 1) =>
    LET written == files[tasks[ti].out].rows
    IN  /\ tasks[ti].stats = "pit" => written = rows
        /\ tasks[ti].stats = "bat" =>
             /\ Len(written) = Len(rows)
             /\ \A i \in 1..Len(rows) :
                  /\ written[i] = normalize_hitter(rows[i])
                  /\ written[i] # rows[i]
        /\ tasks[ti].stats \in {"bat", "pit"}

\* a pitcher file was written with the merged rows as they came, after a
\* hitter file with normalized rows
C15_Witness ==
  /\ pc = "main"
  /\ ti = 4
  /\ tasks[ti].stats = "pit"
  /\ Len(rows) >= 2
  /\ files[tasks[4].out].rows = rows
  /\ \E r \in Range(rows) : "playerid" \in DOMAIN r
  /\ files[tasks[1].out].rows # << >>
  /\ files[tasks[1].out].rows # files[tasks[4].out].rows

----------------------------------------------------------------------------
\* an outcome of the three retried kinds: a transient status, a network
\* exception, or a 2xx body that does not parse as JSON
IsRetriedKind(o) ==
  \/ o.net
  \/ ~o.net /\ o.status \in {429, 403, 502, 503, 504}
  \/ ~o.net /\ o.status = 200 /\ o.body = "garbage"

\* the exception such an outcome raises inside call_api
RaisedBy(o) ==
  IF o.net THEN Error("ConnectionError", 0)
  ELSE IF o.status = 200 THEN Error("JSONDecodeError", 200)
  ELSE Error("RuntimeError", o.status)

(* C16: transient statuses, network exceptions and JSON parse failures     *)
(* share one budget of 6 attempts: each consumes an attempt and is         *)
(* followed by a sleep and a retry, any mix leads to at most 6 requests,   *)
(* and on exhaustion the error of the 6th attempt is raised.               *)
C16_SharedBudget ==
  (hist # << >> /\ \A i \in 1..Len(hist) : IsRetriedKind(hist[i])) =>
    LET k == Len(hist)
    IN  /\ k <= 6 /\ calls = k
        /\ last_err = RaisedBy(hist[k])
        /\ k < 6 => (pc = "call" /\ attempt = k + 1 /\ Len(sleeps) = k)
        /\ k = 6 => (pc = "aborted" /\ err = RaisedBy(hist[6]) /\ Len(sleeps) = 5)

\* a call that began with a network exception ran out of attempts on an
\* unparsable body, whose error it raised
C16_Witness ==
  /\ pc = "aborted"
  /\ Len(hist) = 6
  /\ hist[1].net
  /\ \E i \in 2..5 : hist[i] = Outcome(FALSE, 200, "garbage")
  /\ \E i \in 2..5 : hist[i].net
  /\ hist[6] = Outcome(FALSE, 200, "garbage")
  /\ err = Error("JSONDecodeError", 200)
  /\ calls = 6

----------------------------------------------------------------------------
RECURSIVE BatchesOfTasks(_)
\* the number of batches of the first k tasks
BatchesOfTasks(k) ==
  IF k = 0 THEN 0
  ELSE BatchesOfTasks(k - 1) + Len(chunk(SEGMENTS[tasks[k].seg], BATCH_SIZE))

\* the batches of the whole job
TotalBatches == BatchesOfTasks(Len(tasks))

\* the batches per task the claim counts: 2 per hit, 1 per sp, 2 per rp
ClaimedBatches(seg) == IF seg = "sp" THEN 1 ELSE 2

\* the job completed: all 9 files written, one successful request for each
\* batch of the last task and at most 6 requests per batch
Completed ==
  /\ pc = "done"
  /\ ti = 9
  /\ \A k \in 1..9 : Writes(k) = 1
  /\ oks = Len(batches)
  /\ Len(batches) = ClaimedBatches(tasks[ti].seg)
  /\ calls <= 6 /\ treq <= 6 * Len(batches)

\* the job was aborted by a propagated error: the files of the earlier
\* tasks written, at most 6 requests per batch begun
Aborted ==
  /\ pc = "aborted"
  /\ err # NoErr
  /\ \A k \in 1..9 : Writes(k) = (IF k < ti THEN 1 ELSE 0)
  /\ calls <= 6 /\ treq <= 6 * Len(sent) /\ Len(sent) <= Len(batches)

\* every completed task had one successful request per batch, 2, 1 or 2 of
\* them, and at most 6 requests per batch; the tasks have 15 batches
TaskBudget ==
  /\ TotalBatches = 15 /\ 6 * TotalBatches = 90
  /\ (pc = "main" /\ ti >= 1) =>
       /\ Writes(ti) = 1
       /\ oks = Len(batches)
       /\ Len(batches) = ClaimedBatches(tasks[ti].seg)
       /\ treq <= 6 * Len(batches)

(* C17: with every request returning or failing, the job ends completed or *)
(* aborted.  Completed: all 9 files written in task order, one successful  *)
(* request per batch, 15 batches in all.  Aborted: by a propagated error.  *)
(* Either way at most 6 requests per batch, so at most 6 * 15 = 90.        *)
C17_Terminates == []TaskBudget /\ <>(Completed \/ Aborted)

\* the job completed although every one of the last task's batches needed
\* all six attempts
C17_Witness ==
  /\ pc = "done"
  /\ \A k \in 1..9 : Writes(k) = 1
  /\ treq = 12
  /\ oks = 2

\* p is a prefix of q
IsPrefix(p, q) == Len(p) <= Len(q) /\ SubSeq(q, 1, Len(p)) = p

(* C18: throughout fetch_batched no two accumulated rows share a dedup key, *)
(* also when one response repeats a key, and within a task the list held   *)
(* before a step is a prefix of the list held after it: an accepted row is *)
(* never removed, replaced or reordered.                                   *)
C18_AccumulatedRows ==
  /\ [](UniqueKeys(rows))
  /\ [][ti' = ti => IsPrefix(rows, rows')]_vars

\* two batches merged, the second response repeating a key within itself
\* and repeating a key of the first
C18_Witness ==
  /\ pc = "fetch"
  /\ nmerged = 2
  /\ ~UniqueKeys(normalize_rows(upstream[2]))
  /\ Len(rows) >= 4
  /\ Len(rows) + 2 <= Len(received)

\* batch nmerged + 1 of the task is the one being requested
RequestingNext == Len(sent) = nmerged + 1 /\ bi = nmerged + 1

\* the files of the earlier tasks are written, those of later tasks are not
EarlierWritten ==
  \A k \in 1..Len(tasks) :
    Writes(k) = (IF k < ti \/ (k = ti /\ pc \in {"main", "done"}) THEN 1 ELSE 0)

(* C19: a request for batch i+1 of a task is issued only after the         *)
(* responses of batches 1..i were received and merged, a request of task   *)
(* k+1 only after the files of tasks 1..k were written, no request is      *)
(* issued while a response waits to be merged, and a file is written at    *)
(* most once and not changed afterwards.                                   *)
C19_Sequential ==
  /\ [](EarlierWritten /\ (pc \in {"call", "returned"} => RequestingNext)
                       /\ (pc = "fetch" => Len(sent) = nmerged))
  /\ [][/\ treq' > treq =>
            /\ pc = "call" /\ RequestingNext
            /\ Writes(ti) = 0 /\ \A k \in 1..(ti - 1) : Writes(k) = 1
         /\ \A k \in 1..Len(tasks) :
              Writes(k) = 1 => files'[tasks[k].out] = files[tasks[k].out]]_vars

\* the second batch of the second task being requested again after a failure
C19_Witness ==
  /\ pc = "call"
  /\ ti = 2
  /\ Writes(1) = 1
  /\ nmerged = 1
  /\ Len(sent) = 2
  /\ calls >= 1

====
